---- MODULE Spec2Model ----
(***************************************************************************)
(* The gateway session client of src/websocket/client.go as a state        *)
(* machine: the session state of Client, the goroutines it starts          *)
(* (operationHandlers, receiver, emitter, pulsate and its per-beat         *)
(* watchdogs, reconnect, the Invalid-Session delay) and the calls of its   *)
(* API (Connect, Disconnect, Shutdown, Emit, RegisterEvent, RemoveEvent).  *)
(*                                                                         *)
(* Channels are unbuffered (make(chan T)): a send and its receive are one  *)
(* joint step of the two goroutines.  m.Lock / m.RLock sections that do    *)
(* not block inside are one step, enabled while no Disconnect holds the    *)
(* lock (mu); Disconnect keeps the lock over its channel send and waits.   *)
(*                                                                         *)
(* Time is counted in ticks of half a second and kept RELATIVE to the      *)
(* current instant: time.Now() is Now (0), a stored time.Time is <= 0 and  *)
(* a timer is the number of ticks still to wait.  Tick moves everything    *)
(* one tick into the past.                                                 *)
(***************************************************************************)
EXTENDS Integers, Sequences, FiniteSets, Bags, TLC

----------------------------------------------------------------------------
(* Bounds of the model *)

\* inbound frames the transport delivers in one run
MaxPackets == 3
\* largest sequence value ("s") an inbound DiscordEvent carries
MaxSeq == 2
\* service ids a pulsator draws from: 1..MaxServiceID (the code: 1..254)
MaxServiceID == 2
\* ticks after which a stored time.Time is only known as "that long ago"
Horizon == 7
\* Emit calls made by the application in one run
MaxEmits == 2
\* Connect / Disconnect calls made by the application in one run
MaxCalls == 3

----------------------------------------------------------------------------
(* Program constants *)

maxReconnectTries == 5
\* time.Second in ticks
Second == 2
\* time.Second.Nanoseconds() / 2 in ticks (lockRestart)
HalfSecond == 1
\* 3 * time.Second, the watchdog's deadline, in ticks
AckDeadline == 6
\* time.Millisecond * 10 in ticks (Disconnect's second wait), below one tick
TenMillis == 0
\* Client.timeoutMultiplier, set to 1 by the constructors and never changed
timeoutMultiplier == 1
\* rand.Intn(4) + 1: the largest Invalid-Session delay factor
MaxDelay == 4

\* opcodes (websocket/opcode; the values are the wire protocol's)
opDiscordEvent == 0
opHeartbeat == 1
opIdentify == 2
opStatusUpdate == 3
opVoiceStateUpdate == 4
opResume == 6
opReconnect == 7
opRequestGuildMembers == 8
opInvalidSession == 9
opHello == 10
opHeartbeatAck == 11
\* the two internal pseudo-opcodes understood by the emitter only
opShutdown == 100
opClose == 101
\* an opcode the demultiplexer does not know
opUnknown == 12

\* event and command names (websocket/event, websocket/cmd)
evReady == "READY"
\* event.Resume: the name eventHandler compares with, and the command Emit maps
\* to opcode.Resume
evResume == "RESUMED"
evShutdown == "SHUTDOWN"
evClose == "CLOSE"
evHeartbeat == "HEARTBEAT"
evIdentify == "IDENTIFY"
cmdRequestGuildMembers == "REQUEST_GUILD_MEMBERS"
cmdUpdateVoiceState == "UPDATE_VOICE_STATE"
cmdUpdateStatus == "UPDATE_STATUS"

\* Config.Token
Token == "T"

Now == 0
\* the zero time.Time / unix time 0: longer ago than the model distinguishes
Epoch == 0 - Horizon

----------------------------------------------------------------------------
VARIABLES
    shutdown,           \* the shutdown channel is closed
    conn,               \* the transport: "open" or "closed"
    endpoint,           \* conf.Endpoint is known (non-empty)
    disconnected, haveConnectedOnce,
    mu,                 \* m's lock is held by a Disconnect in progress
    sessionID, trace, sequenceNumber,
    heartbeatInterval, lastHeartbeatAck, heartbeatLatency,
    trackedEvents,
    pulsating,
    lastRestart,
    locked,             \* history: what the last lockRestart() returned
    demux,              \* the operationHandlers goroutine
    receivers,          \* bag of receiver goroutines
    emitters,           \* bag of emitter goroutines
    pulsators,          \* sequence of pulsate goroutines, in start order
    watchdogs,          \* bag of heartbeat watchdog goroutines
    calls,              \* bag of reconnect(), Disconnect, Shutdown, Emit calls
                        \* and Invalid-Session goroutines in progress
    nread,              \* frames read from the transport so far
    nemit,              \* Emit calls made by the application so far
    ncalls,             \* Connect / Disconnect / Shutdown calls made so far
    written,            \* history: packets handed to conn.WriteJSON, in order
    events              \* history: Events received from EventChan(), in order

session == <<sessionID, trace, sequenceNumber>>
heart == <<heartbeatInterval, lastHeartbeatAck, heartbeatLatency>>
link == <<conn, endpoint, disconnected, haveConnectedOnce>>
counters == <<nread, nemit, ncalls>>
restart == <<lastRestart, locked>>
vars == <<shutdown, link, mu, session, heart, trackedEvents, pulsating,
          restart, demux, receivers, emitters, pulsators, watchdogs,
          calls, counters, written, events>>

----------------------------------------------------------------------------
(* Bags of goroutines *)

BagAdd(B, x) == B (+) SetToBag({x})
BagDel(B, x) == B (-) SetToBag({x})

RECURSIVE SumCopies(_, _)
SumCopies(S, B) ==
    IF S = {} THEN 0
    ELSE LET x == CHOOSE y \in S : TRUE
         IN B[x] + SumCopies(S \ {x}, B)

\* the bag of F(x), x in B
BagMap(F(_), B) ==
    [y \in {F(x) : x \in DOMAIN B} |->
        SumCopies({x \in DOMAIN B : F(x) = y}, B)]

----------------------------------------------------------------------------
(* Data *)

\* the d of an outbound packet
Nil == [kind |-> "nil", token |-> "", session |-> "", n |-> 0]
UintData(n) == [kind |-> "uint", token |-> "", session |-> "", n |-> n]
UserData(n) == [kind |-> "user", token |-> "", session |-> "", n |-> n]
ResumeData(tok, s, n) == [kind |-> "resume", token |-> tok, session |-> s, n |-> n]
IdentifyData(tok) == [kind |-> "identify", token |-> tok, session |-> "", n |-> 0]

NoPacket == [Op |-> 0 - 1, Data |-> Nil]

\* the d of an inbound packet: what Unmarshal into readyPacket / helloPacket
\* finds in it (absent fields are the zero value)
ReadyData == { [session_id |-> "abc", trace |-> <<"g1">>, heartbeat_interval |-> 0],
               [session_id |-> "xyz", trace |-> <<"g2">>, heartbeat_interval |-> 0] }
HelloData == { [session_id |-> "", trace |-> <<"g1">>, heartbeat_interval |-> 1],
               [session_id |-> "", trace |-> <<"g1">>, heartbeat_interval |-> 7] }
NoData == [session_id |-> "", trace |-> <<>>, heartbeat_interval |-> 0]

EventNames == {evReady, evResume, "MESSAGE_CREATE", "TYPING_START"}
Registrable == {evReady, "MESSAGE_CREATE", "TYPING_START"}

discordPacket(op, s, t, d) == [Op |-> op, SequenceNumber |-> s, EventName |-> t, Data |-> d]
NoInbound == discordPacket(0 - 1, 0, "", NoData)

\* every event name arrives with a payload that holds a session id; READY
\* arrives with either one
EventPackets ==
    { discordPacket(opDiscordEvent, s, t, d) :
        s \in 1..MaxSeq, t \in EventNames, d \in ReadyData }
    \ { discordPacket(opDiscordEvent, s, t, d) :
        s \in 1..MaxSeq, t \in EventNames \ {evReady},
        d \in {x \in ReadyData : x.session_id = "abc"} }
HelloPackets == { discordPacket(opHello, 0, "", d) : d \in HelloData }
ControlPackets ==
    { discordPacket(op, 0, "", NoData) :
        op \in {opHeartbeat, opReconnect, opInvalidSession, opHeartbeatAck, opUnknown} }

UserCommands == {cmdUpdateStatus, cmdRequestGuildMembers, "NO_SUCH_COMMAND"}

----------------------------------------------------------------------------
(* Goroutine records *)

\* operationHandlers: pc, the packet p of the current iteration, the packet
\* out it has handed to Emit for p, and res, what became of p
Demux(pc, p, out, res) == [pc |-> pc, p |-> p, out |-> out, res |-> res]

Receiver(pc, p) == [pc |-> pc, p |-> p]
Emitter(pc, msg) == [pc |-> pc, msg |-> msg]

\* pulsate: serviceID id, the snapshot (last, snr), the ticker (period iv,
\* ticks tk to its next fire, fired: a tick waits in ticker.C), the packet out
Pulsator(pc, id, last, snr, iv, tk, fired) ==
    [pc |-> pc, id |-> id, last |-> last, snr |-> snr, iv |-> iv, tk |-> tk,
     fired |-> fired]
NewPulsator == Pulsator("start", 0, Epoch, 0, 0, 0, FALSE)
DonePulsator == Pulsator("done", 0, Epoch, 0, 0, 0, FALSE)

\* the watchdog of one beat: its arguments last and sent, the ticks t left of
\* its deadline, and cancel: the pulsator whose current stopChan it selects
\* on, 0 when that pulsator has made a newer stopChan, -1 when closed; acked
\* is history: a HeartbeatAck was handled since the watchdog started
Watchdog(pc, last, sent, t, cancel) ==
    [pc |-> pc, last |-> last, sent |-> sent, t |-> t, cancel |-> cancel,
     acked |-> FALSE]

\* a call in progress: kind is "reconnect", "Disconnect", "Shutdown", "Emit"
\* or "invalid" (the Invalid-Session goroutine)
Call(kind, pc, try, t, out) ==
    [kind |-> kind, pc |-> pc, try |-> try, t |-> t, out |-> out]
ReconnectCall == Call("reconnect", "start", 0, 0, NoPacket)

----------------------------------------------------------------------------
Init ==
    /\ shutdown = FALSE
    /\ conn = "closed"
    /\ endpoint = FALSE
    /\ disconnected = TRUE
    /\ haveConnectedOnce = FALSE
    /\ mu = FALSE
    /\ sessionID = ""
    /\ trace = <<>>
    /\ sequenceNumber = 0
    /\ heartbeatInterval = 0
    /\ lastHeartbeatAck = Epoch
    /\ heartbeatLatency = 0
    /\ trackedEvents = <<>>
    /\ pulsating = 0
    /\ lastRestart = 0 - (HalfSecond + 1)
    /\ locked = "none"
    /\ demux = Demux("select", NoInbound, NoPacket, "")
    /\ receivers = EmptyBag
    /\ emitters = EmptyBag
    /\ pulsators = <<>>
    /\ watchdogs = EmptyBag
    /\ calls = EmptyBag
    /\ nread = 0
    /\ nemit = 0
    /\ ncalls = 0
    /\ written = <<>>
    /\ events = <<>>

----------------------------------------------------------------------------
(* Emit *)

opcodeOf(command) ==
    CASE command = evShutdown -> opShutdown
      [] command = evClose -> opClose
      [] command = evHeartbeat -> opHeartbeat
      [] command = evIdentify -> opIdentify
      [] command = evResume -> opResume
      [] command = cmdRequestGuildMembers -> opRequestGuildMembers
      [] command = cmdUpdateVoiceState -> opVoiceStateUpdate
      [] command = cmdUpdateStatus -> opStatusUpdate
      [] OTHER -> 0 - 1

\* an Emit that does not consult the rate limiter
EmitOK_Unlimited(command, accepted) ==
    /\ haveConnectedOnce
    /\ opcodeOf(command) # 0 - 1

\* Emit returns no error and goes on to send on emitChan; accepted is the
\* answer of m.ratelimit.Request(command)
EmitOK(command, accepted) ==
    /\ haveConnectedOnce
    /\ opcodeOf(command) # 0 - 1
    /\ accepted

clientPacket(command, data) == [Op |-> opcodeOf(command), Data |-> data]

\* sendIdentityPacket's Emit
identityPacket == clientPacket(evIdentify, IdentifyData(Token))

----------------------------------------------------------------------------
(* Connect *)

\* a Connect that does not look at m.disconnected
ConnectOK_Again(discovered, opened) ==
    /\ endpoint \/ discovered
    /\ opened

\* Connect returns nil; discovered and opened are the answers of
\* getGatewayRoute and conn.Open
ConnectOK(discovered, opened) ==
    /\ disconnected
    /\ endpoint \/ discovered
    /\ opened

\* the body of Connect, run under m.Lock
Connect(discovered, opened) ==
    /\ ~mu
    /\ endpoint' = (endpoint \/ (disconnected /\ discovered))
    /\ IF ConnectOK(discovered, opened)
       THEN /\ haveConnectedOnce' = TRUE
            /\ disconnected' = FALSE
            /\ conn' = "open"
            /\ receivers' = BagAdd(receivers, Receiver("read", NoInbound))
            /\ emitters' = BagAdd(emitters, Emitter("select", NoPacket))
       ELSE UNCHANGED <<haveConnectedOnce, disconnected, conn, receivers, emitters>>

UserConnect(discovered, opened) ==
    /\ ncalls < MaxCalls
    /\ Connect(discovered, opened)
    /\ ncalls' = ncalls + 1
    /\ UNCHANGED <<shutdown, mu, session, heart, trackedEvents, pulsating,
                   restart, demux, pulsators, watchdogs, calls, nread,
                   nemit, written, events>>

\* the transport loses its connection (the peer closes, the network fails)
ConnDrop ==
    /\ conn = "open"
    /\ conn' = "closed"
    /\ UNCHANGED <<shutdown, endpoint, disconnected, haveConnectedOnce, mu,
                   session, heart, trackedEvents, pulsating, restart, demux,
                   receivers, emitters, pulsators, watchdogs, calls, counters,
                   written, events>>

----------------------------------------------------------------------------
(* receiver *)

\* conn.Read returns the frame p
receiver_Read(r, p) ==
    /\ r \in DOMAIN receivers /\ r.pc = "read"
    /\ conn = "open"
    /\ nread < MaxPackets
    /\ nread' = nread + 1
    /\ receivers' = BagAdd(BagDel(receivers, r), Receiver("send", p))
    /\ UNCHANGED <<shutdown, link, mu, session, heart, trackedEvents, pulsating,
                   restart, demux, emitters, pulsators, watchdogs, calls,
                   nemit, ncalls, written, events>>

\* conn.Read returns an error
receiver_ReadError(r) ==
    /\ r \in DOMAIN receivers /\ r.pc = "read"
    /\ conn = "closed"
    /\ receivers' = BagDel(receivers, r)
    /\ UNCHANGED <<shutdown, link, mu, session, heart, trackedEvents, pulsating,
                   restart, demux, emitters, pulsators, watchdogs, calls,
                   counters, written, events>>

\* the select on m.shutdown after the send
receiver_Poll(r) ==
    /\ r \in DOMAIN receivers /\ r.pc = "poll"
    /\ receivers' = IF shutdown THEN BagDel(receivers, r)
                    ELSE BagAdd(BagDel(receivers, r), Receiver("read", NoInbound))
    /\ UNCHANGED <<shutdown, link, mu, session, heart, trackedEvents, pulsating,
                   restart, demux, emitters, pulsators, watchdogs, calls,
                   counters, written, events>>

----------------------------------------------------------------------------
(* operationHandlers *)

\* m.receiveChan <- evt meets p, open = <-m.Receive()
operationHandlers_Receive(r) ==
    /\ demux.pc = "select"
    /\ r \in DOMAIN receivers /\ r.pc = "send"
    /\ demux' = Demux("handle", r.p, NoPacket, "")
    /\ receivers' = BagAdd(BagDel(receivers, r), Receiver("poll", NoInbound))
    /\ UNCHANGED <<shutdown, link, mu, session, heart, trackedEvents, pulsating,
                   restart, emitters, pulsators, watchdogs, calls, counters,
                   written, events>>

\* case <-m.shutdown
operationHandlers_Shutdown ==
    /\ demux.pc = "select"
    /\ shutdown
    /\ demux' = Demux("done", NoInbound, NoPacket, "")
    /\ UNCHANGED <<shutdown, link, mu, session, heart, trackedEvents, pulsating,
                   restart, receivers, emitters, pulsators, watchdogs, calls,
                   counters, written, events>>

\* a loop that stops one element short
eventOfInterest_SkipLast(name) ==
    \E i \in 1..(Len(trackedEvents) - 1) : name = trackedEvents[i]

eventOfInterest(name) == \E i \in 1..Len(trackedEvents) : name = trackedEvents[i]

\* a check that lets a gap through
SequenceMatches_Gap(p) == p.SequenceNumber >= sequenceNumber + 1

\* the comparison made before the increment
SequenceMatches_Stale(p) == p.SequenceNumber = sequenceNumber

\* the sequence check of eventHandler, made after m.sequenceNumber++
SequenceMatches(p) == p.SequenceNumber = sequenceNumber + 1

\* READY and RESUMED filtered like every other name
Dispatched_TrackedOnly(p) == eventOfInterest(p.EventName)

\* eventHandler dispatches the packet (does not return before the send)
Dispatched(p) ==
    \/ p.EventName = evReady
    \/ p.EventName = evResume
    \/ ~(p.Op = opDiscordEvent /\ ~eventOfInterest(p.EventName))

\* eventHandler up to its first blocking point
eventHandler ==
    /\ demux.pc = "handle" /\ demux.p.Op = opDiscordEvent
    /\ ~mu
    /\ IF ~SequenceMatches(demux.p)
       THEN /\ calls' = BagAdd(calls, ReconnectCall)
            /\ demux' = Demux("select", demux.p, NoPacket, "mismatch")
            /\ UNCHANGED sequenceNumber
       ELSE /\ sequenceNumber' = sequenceNumber + 1
            /\ demux' = IF demux.p.EventName = evReady
                           THEN Demux("ready", demux.p, NoPacket, "")
                        ELSE IF Dispatched(demux.p)
                           THEN Demux("forward", demux.p, NoPacket, "")
                        ELSE Demux("select", demux.p, NoPacket, "dropped")
            /\ UNCHANGED calls
    /\ UNCHANGED <<shutdown, link, mu, sessionID, trace, heart, trackedEvents,
                   pulsating, restart, receivers, emitters, pulsators,
                   watchdogs, counters, written, events>>

\* a session id that is stored only while none is known
readyPacket_KeepSession(p) ==
    [SessionID |-> IF sessionID = "" THEN p.Data.session_id ELSE sessionID,
     Trace |-> p.Data.trace]

\* httd.Unmarshal(p.Data, &ready)
readyPacket(p) == [SessionID |-> p.Data.session_id, Trace |-> p.Data.trace]

\* the READY branch: the second m.Lock section
eventHandler_Ready ==
    /\ demux.pc = "ready"
    /\ ~mu
    /\ sessionID' = readyPacket(demux.p).SessionID
    /\ trace' = readyPacket(demux.p).Trace
    /\ demux' = IF Dispatched(demux.p)
                   THEN Demux("forward", demux.p, NoPacket, "")
                   ELSE Demux("select", demux.p, NoPacket, "dropped")
    /\ UNCHANGED <<shutdown, link, mu, sequenceNumber, heart, trackedEvents,
                   pulsating, restart, receivers, emitters, pulsators,
                   watchdogs, calls, counters, written, events>>

Event(p) == [Name |-> p.EventName, Data |-> p.Data]

\* m.eventChan <- &Event{...} meets the application's receive
eventHandler_Dispatch ==
    /\ demux.pc = "forward"
    /\ events' = Append(events, Event(demux.p))
    /\ demux' = Demux("select", demux.p, NoPacket, "forwarded")
    /\ UNCHANGED <<shutdown, link, mu, session, heart, trackedEvents, pulsating,
                   restart, receivers, emitters, pulsators, watchdogs, calls,
                   counters, written>>

\* an Identify as soon as one of the two is unset
helloPacketOf_Either(sid, seq) ==
    IF sid = "" \/ seq = 0
    THEN identityPacket
    ELSE clientPacket(evResume, ResumeData(Token, sid, seq))

\* sendHelloPacket's handshake command: Identify for a new session, else Resume
helloPacketOf(sid, seq) ==
    IF sid = "" /\ seq = 0
    THEN identityPacket
    ELSE clientPacket(evResume, ResumeData(Token, sid, seq))

helloCommand(sid, seq) == IF sid = "" /\ seq = 0 THEN evIdentify ELSE evResume

\* case opcode.Hello, with sendHelloPacket up to Emit's channel send
operationHandlers_Hello(accepted) ==
    /\ demux.pc = "handle" /\ demux.p.Op = opHello
    /\ ~mu
    /\ heartbeatInterval' = demux.p.Data.heartbeat_interval
    /\ pulsators' = Append(pulsators, NewPulsator)
    /\ demux' = IF EmitOK(helloCommand(sessionID, sequenceNumber), accepted)
                THEN Demux("emit", demux.p,
                           helloPacketOf(sessionID, sequenceNumber), "")
                ELSE Demux("select", demux.p,
                           helloPacketOf(sessionID, sequenceNumber), "emit error")
    /\ UNCHANGED <<shutdown, link, mu, session, lastHeartbeatAck,
                   heartbeatLatency, trackedEvents, pulsating, restart,
                   receivers, emitters, watchdogs, calls, counters, written,
                   events>>

\* case opcode.Heartbeat
operationHandlers_Heartbeat(accepted) ==
    /\ demux.pc = "handle" /\ demux.p.Op = opHeartbeat
    /\ demux' = IF EmitOK(evHeartbeat, accepted)
                THEN Demux("emit", demux.p,
                           clientPacket(evHeartbeat, UintData(sequenceNumber)), "")
                ELSE Demux("select", demux.p,
                           clientPacket(evHeartbeat, UintData(sequenceNumber)),
                           "emit error")
    /\ UNCHANGED <<shutdown, link, mu, session, heart, trackedEvents, pulsating,
                   restart, receivers, emitters, pulsators, watchdogs, calls,
                   counters, written, events>>

\* case opcode.HeartbeatAck; time.Now() is later than the time of the last ack
operationHandlers_HeartbeatAck ==
    /\ demux.pc = "handle" /\ demux.p.Op = opHeartbeatAck
    /\ ~mu
    /\ lastHeartbeatAck < Now
    /\ lastHeartbeatAck' = Now
    /\ demux' = Demux("select", demux.p, NoPacket, "ack")
    /\ watchdogs' = LET A(w) == [w EXCEPT !.acked = TRUE] IN BagMap(A, watchdogs)
    /\ UNCHANGED <<shutdown, link, mu, session, heartbeatInterval,
                   heartbeatLatency, trackedEvents, pulsating, restart,
                   receivers, emitters, pulsators, calls, counters, written,
                   events>>

\* case opcode.Reconnect
operationHandlers_Reconnect ==
    /\ demux.pc = "handle" /\ demux.p.Op = opReconnect
    /\ calls' = BagAdd(calls, ReconnectCall)
    /\ demux' = Demux("select", demux.p, NoPacket, "reconnect")
    /\ UNCHANGED <<shutdown, link, mu, session, heart, trackedEvents, pulsating,
                   restart, receivers, emitters, pulsators, watchdogs,
                   counters, written, events>>

\* a goroutine that sends the Identify at once
operationHandlers_InvalidSession_NoDelay(delay) ==
    /\ demux.pc = "handle" /\ demux.p.Op = opInvalidSession
    /\ calls' = BagAdd(calls, Call("invalid", "delay", 0, 0, NoPacket))
    /\ demux' = Demux("select", demux.p, NoPacket, "invalid")
    /\ UNCHANGED <<shutdown, link, mu, session, heart, trackedEvents, pulsating,
                   restart, receivers, emitters, pulsators, watchdogs,
                   counters, written, events>>

\* case opcode.InvalidSession: the goroutine starts with its random delay
operationHandlers_InvalidSession(delay) ==
    /\ demux.pc = "handle" /\ demux.p.Op = opInvalidSession
    /\ calls' = BagAdd(calls, Call("invalid", "delay", 0,
                                   delay * timeoutMultiplier * Second, NoPacket))
    /\ demux' = Demux("select", demux.p, NoPacket, "invalid")
    /\ UNCHANGED <<shutdown, link, mu, session, heart, trackedEvents, pulsating,
                   restart, receivers, emitters, pulsators, watchdogs,
                   counters, written, events>>

\* default
operationHandlers_Unknown ==
    /\ demux.pc = "handle" /\ demux.p.Op = opUnknown
    /\ demux' = Demux("select", demux.p, NoPacket, "unknown")
    /\ UNCHANGED <<shutdown, link, mu, session, heart, trackedEvents, pulsating,
                   restart, receivers, emitters, pulsators, watchdogs, calls,
                   counters, written, events>>

\* the Invalid-Session goroutine after its delay: sendIdentityPacket
invalidSession_Identify(c, accepted) ==
    /\ c \in DOMAIN calls /\ c.kind = "invalid" /\ c.pc = "delay" /\ c.t = 0
    /\ calls' = IF EmitOK(evIdentify, accepted)
                THEN BagAdd(BagDel(calls, c),
                            Call("invalid", "emit", 0, 0, identityPacket))
                ELSE BagDel(calls, c)
    /\ UNCHANGED <<shutdown, link, mu, session, heart, trackedEvents, pulsating,
                   restart, demux, receivers, emitters, pulsators, watchdogs,
                   counters, written, events>>

----------------------------------------------------------------------------
(* The application's Emit, RegisterEvent, RemoveEvent *)

\* Emit(command, data) called by the application, one call at a time
UserEmit(command, accepted) ==
    /\ nemit < MaxEmits
    /\ \A c \in DOMAIN calls : c.kind # "Emit"
    /\ nemit' = nemit + 1
    /\ calls' = IF EmitOK(command, accepted)
                THEN BagAdd(calls, Call("Emit", "emit", 0, 0,
                                        clientPacket(command, UserData(nemit + 1))))
                ELSE calls
    /\ UNCHANGED <<shutdown, link, mu, session, heart, trackedEvents, pulsating,
                   restart, demux, receivers, emitters, pulsators, watchdogs,
                   nread, ncalls, written, events>>

RegisterEvent(event) ==
    /\ trackedEvents' = IF \E i \in 1..Len(trackedEvents) : event = trackedEvents[i]
                        THEN trackedEvents
                        ELSE Append(trackedEvents, event)
    /\ UNCHANGED <<shutdown, link, mu, session, heart, pulsating, restart,
                   demux, receivers, emitters, pulsators, watchdogs, calls,
                   counters, written, events>>

\* trackedEvents after RemoveEvent(event): the first match is overwritten by
\* the last element and the slice is cut by one
removed(event) ==
    IF \E i \in 1..Len(trackedEvents) : event = trackedEvents[i]
    THEN LET i == CHOOSE k \in 1..Len(trackedEvents) :
                     /\ event = trackedEvents[k]
                     /\ \A j \in 1..(k - 1) : event # trackedEvents[j]
             last == Len(trackedEvents)
         IN SubSeq([trackedEvents EXCEPT ![i] = trackedEvents[last]], 1, last - 1)
    ELSE trackedEvents

RemoveEvent(event) ==
    /\ trackedEvents' = removed(event)
    /\ UNCHANGED <<shutdown, link, mu, session, heart, pulsating, restart,
                   demux, receivers, emitters, pulsators, watchdogs, calls,
                   counters, written, events>>

----------------------------------------------------------------------------
(* emitter *)

\* the goroutines blocked in Emit's m.emitChan <- packet
DemuxSends == demux.pc = "emit"
PulsatorSends(i) == i \in 1..Len(pulsators) /\ pulsators[i].pc = "emit"
CallSends(c) == c \in DOMAIN calls /\ c.pc \in {"emit", "dc_emit"}

\* the d of the packet is nil and its opcode is Shutdown or Close
ClosesTransport(msg) == msg.Data = Nil /\ msg.Op \in {opShutdown, opClose}

\* stopChan := make(chan interface{}): the watchdogs still waiting on the
\* previous stopChan of pulsator i can no longer be cancelled
Orphaned(i, w) == IF w.cancel = i THEN [w EXCEPT !.cancel = 0] ELSE w
\* close(stopChan) by pulsator i
Cancelled(i, w) == IF w.cancel = i THEN [w EXCEPT !.cancel = 0 - 1] ELSE w

\* pulsator i starts the watchdog of the beat it has just emitted
WatchdogsWith(i) ==
    LET O(w) == Orphaned(i, w)
    IN BagAdd(BagMap(O, watchdogs),
              Watchdog("wait", pulsators[i].last, Now, AckDeadline, i))

Waiting(i) == [pulsators[i] EXCEPT !.pc = "wait", !.last = Epoch, !.snr = 0]

\* msg = <-m.emitChan meets the send of the operation demultiplexer
emitter_FromDemux(e) ==
    /\ e \in DOMAIN emitters /\ e.pc = "select"
    /\ DemuxSends
    /\ emitters' = BagAdd(BagDel(emitters, e), Emitter("got", demux.out))
    /\ demux' = Demux("select", demux.p, demux.out, "emitted")
    /\ UNCHANGED <<shutdown, link, mu, session, heart, trackedEvents, pulsating,
                   restart, receivers, pulsators, watchdogs, calls, counters,
                   written, events>>

\* ... the send of pulsator i, which goes on to start the beat's watchdog
emitter_FromPulsator(e, i) ==
    /\ e \in DOMAIN emitters /\ e.pc = "select"
    /\ PulsatorSends(i)
    /\ emitters' = BagAdd(BagDel(emitters, e),
                          Emitter("got", clientPacket(evHeartbeat,
                                                      UintData(pulsators[i].snr))))
    /\ watchdogs' = WatchdogsWith(i)
    /\ pulsators' = [pulsators EXCEPT ![i] = Waiting(i)]
    /\ UNCHANGED <<shutdown, link, mu, session, heart, trackedEvents, pulsating,
                   restart, demux, receivers, calls, counters, written,
                   events>>

\* the call c after its send on emitChan was received: Disconnect goes on to
\* its waits (m.disconnected = true), Emit and sendIdentityPacket return
AfterSend(c) ==
    IF c.pc = "dc_emit"
    THEN BagAdd(BagDel(calls, c),
                Call(c.kind, "dc_wait", c.try,
                     Second * timeoutMultiplier + TenMillis, NoPacket))
    ELSE BagDel(calls, c)

\* ... the send of a call: Emit, sendIdentityPacket or Disconnect's Emit
emitter_FromCall(e, c) ==
    /\ e \in DOMAIN emitters /\ e.pc = "select"
    /\ CallSends(c)
    /\ emitters' = BagAdd(BagDel(emitters, e), Emitter("got", c.out))
    /\ calls' = AfterSend(c)
    /\ disconnected' = IF c.pc = "dc_emit" THEN TRUE ELSE disconnected
    /\ UNCHANGED <<shutdown, conn, endpoint, haveConnectedOnce, mu, session,
                   heart, trackedEvents, pulsating, restart, demux,
                   receivers, pulsators, watchdogs, counters, written, events>>

\* case <-m.shutdown: open is false, the emitter closes the transport
emitter_Shutdown(e) ==
    /\ e \in DOMAIN emitters /\ e.pc = "select"
    /\ shutdown
    /\ conn' = "closed"
    /\ emitters' = BagDel(emitters, e)
    /\ UNCHANGED <<shutdown, endpoint, disconnected, haveConnectedOnce, mu,
                   session, heart, trackedEvents, pulsating, restart, demux,
                   receivers, pulsators, watchdogs, calls, counters, written,
                   events>>

\* the packet received: close the transport and return, or conn.WriteJSON
emitter_Write(e) ==
    /\ e \in DOMAIN emitters /\ e.pc = "got"
    /\ IF ClosesTransport(e.msg)
       THEN /\ conn' = "closed"
            /\ emitters' = BagDel(emitters, e)
            /\ UNCHANGED written
       ELSE /\ written' = Append(written, e.msg)
            /\ emitters' = BagAdd(BagDel(emitters, e), Emitter("select", NoPacket))
            /\ UNCHANGED conn
    /\ UNCHANGED <<shutdown, endpoint, disconnected, haveConnectedOnce, mu,
                   session, heart, trackedEvents, pulsating, restart, demux,
                   receivers, pulsators, watchdogs, calls, counters, events>>

----------------------------------------------------------------------------
(* pulsate *)

\* m.pulsating after AllowedToStartPulsating(serviceID)
AllowedToStartPulsating(serviceID) == IF pulsating = 0 THEN serviceID ELSE pulsating

\* m.pulsating after StopPulsating(serviceID)
StopPulsating(serviceID) == IF pulsating = serviceID THEN 0 ELSE pulsating

\* pulsate draws its service id and asks for the token
pulsate_Start(i, serviceID) ==
    /\ i \in 1..Len(pulsators) /\ pulsators[i].pc = "start"
    /\ pulsating' = AllowedToStartPulsating(serviceID)
    /\ pulsators' = [pulsators EXCEPT ![i] =
                        IF pulsating' = serviceID
                        THEN [@ EXCEPT !.pc = "ticker", !.id = serviceID]
                        ELSE DonePulsator]
    /\ UNCHANGED <<shutdown, link, mu, session, heart, trackedEvents, restart,
                   demux, receivers, emitters, watchdogs, calls, counters,
                   written, events>>

\* the top of the loop (the first time: after time.NewTicker): the snapshot
\* under m.RLock, then Emit up to its channel send
pulsate_Beat(i, accepted) ==
    /\ i \in 1..Len(pulsators) /\ pulsators[i].pc \in {"ticker", "beat"}
    /\ ~mu
    /\ LET q == IF pulsators[i].pc = "ticker"
                THEN [pulsators[i] EXCEPT !.iv = heartbeatInterval,
                                          !.tk = heartbeatInterval]
                ELSE pulsators[i]
           b == [q EXCEPT !.last = lastHeartbeatAck, !.snr = sequenceNumber]
       IN IF EmitOK(evHeartbeat, accepted)
          THEN /\ pulsators' = [pulsators EXCEPT ![i] = [b EXCEPT !.pc = "emit"]]
               /\ UNCHANGED watchdogs
          ELSE /\ pulsators' = [pulsators EXCEPT ![i] =
                                   [q EXCEPT !.pc = "wait"]]
               /\ watchdogs' =
                    LET O(w) == Orphaned(i, w)
                    IN BagAdd(BagMap(O, watchdogs),
                              Watchdog("wait", lastHeartbeatAck, Now, AckDeadline, i))
    /\ UNCHANGED <<shutdown, link, mu, session, heart, trackedEvents, pulsating,
                   restart, demux, receivers, emitters, calls, counters,
                   written, events>>

\* case <-ticker.C: continue
pulsate_Tick(i) ==
    /\ i \in 1..Len(pulsators) /\ pulsators[i].pc = "wait"
    /\ pulsators[i].fired
    /\ pulsators' = [pulsators EXCEPT ![i] = [@ EXCEPT !.pc = "beat", !.fired = FALSE]]
    /\ UNCHANGED <<shutdown, link, mu, session, heart, trackedEvents, pulsating,
                   restart, demux, receivers, emitters, watchdogs, calls,
                   counters, written, events>>

\* pulsator i leaves the loop: close(stopChan), return, StopPulsating
PulsatorExits(i) ==
    /\ pulsators' = [pulsators EXCEPT ![i] = DonePulsator]
    /\ watchdogs' = LET C(w) == Cancelled(i, w) IN BagMap(C, watchdogs)
    /\ pulsating' = StopPulsating(pulsators[i].id)

\* case <-m.shutdown
pulsate_Shutdown(i) ==
    /\ i \in 1..Len(pulsators) /\ pulsators[i].pc = "wait"
    /\ shutdown
    /\ PulsatorExits(i)
    /\ UNCHANGED <<shutdown, link, mu, session, heart, trackedEvents, restart,
                   demux, receivers, emitters, calls, counters, written, events>>

----------------------------------------------------------------------------
(* the watchdog of a beat *)

\* case <-cancel
watchdog_Cancel(w) ==
    /\ w \in DOMAIN watchdogs /\ w.pc = "wait"
    /\ w.cancel = 0 - 1
    /\ watchdogs' = BagDel(watchdogs, w)
    /\ UNCHANGED <<shutdown, link, mu, session, heart, trackedEvents, pulsating,
                   restart, demux, receivers, emitters, pulsators, calls,
                   counters, written, events>>

\* an ack counted when the time has not moved
receivedHeartbeatAck_OrEqual(last) == lastHeartbeatAck >= last

\* m.lastHeartbeatAck.After(last)
receivedHeartbeatAck(last) == lastHeartbeatAck > last

\* case <-time.After(3 * time.Second), then the check under m.RLock: the
\* watchdog calls m.reconnect() or goes on to write the latency
watchdog_Deadline(w) ==
    /\ w \in DOMAIN watchdogs /\ w.pc = "wait"
    /\ w.t = 0
    /\ ~mu
    /\ IF ~receivedHeartbeatAck(w.last)
       THEN /\ watchdogs' = BagDel(watchdogs, w)
            /\ calls' = BagAdd(calls, Call("reconnect", "start", 0, 0, NoPacket))
       ELSE /\ watchdogs' = BagAdd(BagDel(watchdogs, w), [w EXCEPT !.pc = "latency"])
            /\ UNCHANGED calls
    /\ UNCHANGED <<shutdown, link, mu, session, heart, trackedEvents, pulsating,
                   restart, demux, receivers, emitters, pulsators, counters,
                   written, events>>

\* m.lastHeartbeatAck.Sub(sent)
latencyOf(sent) == lastHeartbeatAck - sent

\* m.heartbeatLatency = m.lastHeartbeatAck.Sub(sent)
watchdog_Latency(w) ==
    /\ w \in DOMAIN watchdogs /\ w.pc = "latency"
    /\ heartbeatLatency' = latencyOf(w.sent)
    /\ watchdogs' = BagDel(watchdogs, w)
    /\ UNCHANGED <<shutdown, link, mu, session, heartbeatInterval,
                   lastHeartbeatAck, trackedEvents, pulsating, restart,
                   demux, receivers, emitters, pulsators, calls, counters,
                   written, events>>

----------------------------------------------------------------------------
(* reconnect *)

\* a lock without the window
lockRestart_NoWindow == (Now - lastRestart) >= 0

\* lockRestart's locked: (now - m.lastRestart) > time.Second.Nanoseconds() / 2
lockRestart == (Now - lastRestart) > HalfSecond

\* reconnect's first statement: return unless lockRestart()
reconnect_Lock(c) ==
    /\ c \in DOMAIN calls /\ c.kind = "reconnect" /\ c.pc = "start"
    /\ IF lockRestart
       THEN /\ lastRestart' = Now
            /\ locked' = "yes"
            /\ calls' = BagAdd(BagDel(calls, c), [c EXCEPT !.pc = "post"])
       ELSE /\ calls' = BagDel(calls, c)
            /\ locked' = "no"
            /\ UNCHANGED lastRestart
    /\ UNCHANGED <<shutdown, link, mu, session, heart, trackedEvents, pulsating,
                   demux, receivers, emitters, pulsators, watchdogs, counters,
                   written, events>>

\* m.restart <- 1 meets case <-m.restart of pulsator i, which leaves its loop
reconnect_Post(c, i) ==
    /\ c \in DOMAIN calls /\ c.kind = "reconnect" /\ c.pc = "post"
    /\ i \in 1..Len(pulsators) /\ pulsators[i].pc = "wait"
    /\ PulsatorExits(i)
    /\ calls' = BagAdd(BagDel(calls, c), [c EXCEPT !.pc = "dc"])
    /\ UNCHANGED <<shutdown, link, mu, session, heart, trackedEvents, restart,
                   demux, receivers, emitters, counters, written, events>>

\* the wait of reconnect after failed attempt number try: (try+3)*2 seconds
backoff(try) == (try + 3) * 2 * Second

\* err = m.Connect() in the loop of reconnect
reconnect_Connect(c, discovered, opened) ==
    /\ c \in DOMAIN calls /\ c.kind = "reconnect" /\ c.pc = "connect"
    /\ Connect(discovered, opened)
    /\ calls' = IF ConnectOK(discovered, opened) \/ c.try = maxReconnectTries
                THEN BagDel(calls, c)
                ELSE BagAdd(BagDel(calls, c),
                            [c EXCEPT !.pc = "backoff", !.t = backoff(c.try)])
    /\ UNCHANGED <<shutdown, mu, session, heart, trackedEvents, pulsating,
                   restart, demux, pulsators, watchdogs, counters, written,
                   events>>

\* case <-time.After(...): the next attempt
reconnect_Retry(c) ==
    /\ c \in DOMAIN calls /\ c.kind = "reconnect" /\ c.pc = "backoff"
    /\ c.t = 0
    /\ calls' = BagAdd(BagDel(calls, c), [c EXCEPT !.pc = "connect", !.try = c.try + 1])
    /\ UNCHANGED <<shutdown, link, mu, session, heart, trackedEvents, pulsating,
                   restart, demux, receivers, emitters, pulsators, watchdogs,
                   counters, written, events>>

\* case <-m.shutdown: return
reconnect_Shutdown(c) ==
    /\ c \in DOMAIN calls /\ c.kind = "reconnect" /\ c.pc = "backoff"
    /\ shutdown
    /\ calls' = BagDel(calls, c)
    /\ UNCHANGED <<shutdown, link, mu, session, heart, trackedEvents, pulsating,
                   restart, demux, receivers, emitters, pulsators, watchdogs,
                   counters, written, events>>

----------------------------------------------------------------------------
(* Disconnect and Shutdown *)

\* the call c after Disconnect has returned
Returned(c) ==
    CASE c.kind = "reconnect" -> BagAdd(BagDel(calls, c), Call("reconnect", "connect", 0, 0, NoPacket))
      [] c.kind = "Shutdown" -> BagAdd(BagDel(calls, c), Call("Shutdown", "close", 0, 0, NoPacket))
      [] OTHER -> BagDel(calls, c)

\* Disconnect returns "already disconnected"
AlreadyDisconnected == conn = "closed" \/ ~haveConnectedOnce

\* Disconnect from m.Lock() to Emit's channel send or, when Emit returns an
\* error, to the waits
Disconnect(c, accepted) ==
    /\ c \in DOMAIN calls /\ c.pc = "dc"
    /\ ~mu
    /\ IF AlreadyDisconnected
       THEN /\ disconnected' = TRUE
            /\ calls' = Returned(c)
            /\ UNCHANGED mu
       ELSE IF EmitOK(evClose, accepted)
       THEN /\ mu' = TRUE
            /\ calls' = BagAdd(BagDel(calls, c),
                               Call(c.kind, "dc_emit", 0, 0, clientPacket(evClose, Nil)))
            /\ UNCHANGED disconnected
       ELSE /\ mu' = TRUE
            /\ disconnected' = TRUE
            /\ calls' = BagAdd(BagDel(calls, c),
                               Call(c.kind, "dc_wait", 0,
                                    Second * timeoutMultiplier + TenMillis, NoPacket))
    /\ UNCHANGED <<shutdown, conn, endpoint, haveConnectedOnce, session, heart,
                   trackedEvents, pulsating, restart, demux, receivers,
                   emitters, pulsators, watchdogs, counters, written, events>>

\* the two waits are over: Disconnect returns and m.Unlock() runs
Disconnect_Return(c) ==
    /\ c \in DOMAIN calls /\ c.pc = "dc_wait"
    /\ c.t = 0
    /\ mu' = FALSE
    /\ calls' = Returned(c)
    /\ UNCHANGED <<shutdown, link, session, heart, trackedEvents, pulsating,
                   restart, demux, receivers, emitters, pulsators, watchdogs,
                   counters, written, events>>

\* close(m.shutdown)
Shutdown_Close(c) ==
    /\ c \in DOMAIN calls /\ c.kind = "Shutdown" /\ c.pc = "close"
    /\ shutdown' = TRUE
    /\ calls' = BagDel(calls, c)
    /\ UNCHANGED <<link, mu, session, heart, trackedEvents, pulsating,
                   restart, demux, receivers, emitters, pulsators, watchdogs,
                   counters, written, events>>

\* the application calls Disconnect
UserDisconnect ==
    /\ ncalls < MaxCalls
    /\ ncalls' = ncalls + 1
    /\ calls' = BagAdd(calls, Call("Disconnect", "dc", 0, 0, NoPacket))
    /\ UNCHANGED <<shutdown, link, mu, session, heart, trackedEvents, pulsating,
                   restart, demux, receivers, emitters, pulsators, watchdogs,
                   nread, nemit, written, events>>

\* the application calls Shutdown (once: a second close of the channel panics)
ShutdownCalled == shutdown \/ \E c \in DOMAIN calls : c.kind = "Shutdown"

UserShutdown ==
    /\ ~ShutdownCalled
    /\ calls' = BagAdd(calls, Call("Shutdown", "dc", 0, 0, NoPacket))
    /\ UNCHANGED <<shutdown, link, mu, session, heart, trackedEvents, pulsating,
                   restart, demux, receivers, emitters, pulsators, watchdogs,
                   counters, written, events>>

----------------------------------------------------------------------------
(* Time *)

Shift(t, floor) == IF t > floor THEN t - 1 ELSE floor

\* a copy of m.lastHeartbeatAck one tick later: it stays equal to
\* lastHeartbeatAck while no ack has been handled since, and earlier otherwise
ShiftCopy(l) ==
    IF l = lastHeartbeatAck THEN Shift(l, Epoch) ELSE Shift(l, Epoch - 1)

TickPulsator(q) ==
    IF q.pc \in {"start", "ticker", "done"} THEN q
    ELSE [q EXCEPT !.last = IF q.pc = "emit" THEN ShiftCopy(q.last) ELSE q.last,
                   !.tk = IF q.tk = 1 THEN q.iv ELSE q.tk - 1,
                   !.fired = q.fired \/ q.tk = 1]

TickWatchdog(w) ==
    [w EXCEPT !.last = ShiftCopy(w.last),
              !.sent = Shift(w.sent, Epoch),
              !.t = Shift(w.t, 0)]

TickCall(c) == [c EXCEPT !.t = Shift(c.t, 0)]

\* half a second passes
Tick ==
    /\ lastHeartbeatAck' = Shift(lastHeartbeatAck, Epoch)
    /\ lastRestart' = Shift(lastRestart, 0 - (HalfSecond + 1))
    /\ UNCHANGED locked
    /\ pulsators' = [i \in 1..Len(pulsators) |-> TickPulsator(pulsators[i])]
    /\ watchdogs' = BagMap(TickWatchdog, watchdogs)
    /\ calls' = BagMap(TickCall, calls)
    /\ UNCHANGED <<shutdown, link, mu, session, heartbeatInterval,
                   heartbeatLatency, trackedEvents, pulsating, demux, receivers,
                   emitters, counters, written, events>>

----------------------------------------------------------------------------
(* The whole client *)

Packets == EventPackets \cup HelloPackets \cup ControlPackets

Next ==
    \/ Tick
    \/ ConnDrop
    \/ \E d, o \in BOOLEAN : UserConnect(d, o)
    \/ UserDisconnect
    \/ UserShutdown
    \/ \E cm \in UserCommands, a \in BOOLEAN : UserEmit(cm, a)
    \/ \E ev \in Registrable : RegisterEvent(ev)
    \/ \E ev \in Registrable : RemoveEvent(ev)
    \/ \E r \in DOMAIN receivers, p \in Packets : receiver_Read(r, p)
    \/ \E r \in DOMAIN receivers : receiver_ReadError(r)
    \/ \E r \in DOMAIN receivers : receiver_Poll(r)
    \/ \E r \in DOMAIN receivers : operationHandlers_Receive(r)
    \/ operationHandlers_Shutdown
    \/ eventHandler
    \/ eventHandler_Ready
    \/ eventHandler_Dispatch
    \/ \E a \in BOOLEAN : operationHandlers_Hello(a)
    \/ \E a \in BOOLEAN : operationHandlers_Heartbeat(a)
    \/ operationHandlers_HeartbeatAck
    \/ operationHandlers_Reconnect
    \/ \E d \in 1..MaxDelay : operationHandlers_InvalidSession(d)
    \/ operationHandlers_Unknown
    \/ \E c \in DOMAIN calls, a \in BOOLEAN : invalidSession_Identify(c, a)
    \/ \E e \in DOMAIN emitters : emitter_FromDemux(e)
    \/ \E e \in DOMAIN emitters, i \in 1..Len(pulsators) : emitter_FromPulsator(e, i)
    \/ \E e \in DOMAIN emitters, c \in DOMAIN calls : emitter_FromCall(e, c)
    \/ \E e \in DOMAIN emitters : emitter_Shutdown(e)
    \/ \E e \in DOMAIN emitters : emitter_Write(e)
    \/ \E i \in 1..Len(pulsators), id \in 1..MaxServiceID : pulsate_Start(i, id)
    \/ \E i \in 1..Len(pulsators), a \in BOOLEAN : pulsate_Beat(i, a)
    \/ \E i \in 1..Len(pulsators) : pulsate_Tick(i)
    \/ \E i \in 1..Len(pulsators) : pulsate_Shutdown(i)
    \/ \E w \in DOMAIN watchdogs : watchdog_Cancel(w)
    \/ \E w \in DOMAIN watchdogs : watchdog_Deadline(w)
    \/ \E w \in DOMAIN watchdogs : watchdog_Latency(w)
    \/ \E c \in DOMAIN calls : reconnect_Lock(c)
    \/ \E c \in DOMAIN calls, i \in 1..Len(pulsators) : reconnect_Post(c, i)
    \/ \E c \in DOMAIN calls, d, o \in BOOLEAN : reconnect_Connect(c, d, o)
    \/ \E c \in DOMAIN calls : reconnect_Retry(c)
    \/ \E c \in DOMAIN calls : reconnect_Shutdown(c)
    \/ \E c \in DOMAIN calls, a \in BOOLEAN : Disconnect(c, a)
    \/ \E c \in DOMAIN calls : Disconnect_Return(c)
    \/ \E c \in DOMAIN calls : Shutdown_Close(c)

Spec == Init /\ [][Next]_vars

----------------------------------------------------------------------------
(* The client fed with DiscordEvent packets: the event handler, the tracked *)
(* events and the reconnect() its sequence check starts                     *)

NextEvents ==
    \/ Tick
    \/ ConnDrop
    \/ \E d, o \in BOOLEAN : UserConnect(d, o)
    \/ \E ev \in Registrable : RegisterEvent(ev)
    \/ \E ev \in Registrable : RemoveEvent(ev)
    \/ \E r \in DOMAIN receivers, p \in EventPackets : receiver_Read(r, p)
    \/ \E r \in DOMAIN receivers : receiver_ReadError(r)
    \/ \E r \in DOMAIN receivers : receiver_Poll(r)
    \/ \E r \in DOMAIN receivers : operationHandlers_Receive(r)
    \/ eventHandler
    \/ eventHandler_Ready
    \/ eventHandler_Dispatch
    \/ \E c \in DOMAIN calls : reconnect_Lock(c)

SpecEvents == Init /\ [][NextEvents]_vars

----------------------------------------------------------------------------
(* Properties of the event handler *)

TrackedSet == {trackedEvents[i] : i \in 1..Len(trackedEvents)}

\* this step is the demultiplexer handling the DiscordEvent it has received
HandlesEvent == demux.pc = "handle" /\ demux.p.Op = opDiscordEvent /\ demux' # demux
InSequence == demux.p.SequenceNumber = sequenceNumber + 1

\* this step is the send on the event channel being received
ForwardStep ==
    (demux.pc = "forward" /\ demux' # demux)
        => /\ events' = Append(events, [Name |-> demux.p.EventName,
                                        Data |-> demux.p.Data])
           /\ demux'.pc = "select"
           /\ sequenceNumber' = sequenceNumber

C1_Step ==
    (HandlesEvent /\ ~InSequence)
        => /\ sequenceNumber' = sequenceNumber
           /\ sessionID' = sessionID /\ trace' = trace
           /\ events' = events /\ demux'.pc = "select"
           /\ calls' = BagAdd(calls, ReconnectCall)

\* C1: an inbound DiscordEvent whose sequence is not sequence_number + 1 leaves
\* sequence_number, session_id and trace as they were, puts no Event on the
\* event channel whatever its name, and starts one reconnect()
C1_SequenceGapForcesReconnect == [][C1_Step]_vars

\* a READY with a stale sequence was refused after an accepted READY
C1_Witness ==
    /\ demux.res = "mismatch" /\ demux.pc = "select"
    /\ demux.p.EventName = evReady /\ demux.p.Data.session_id = "xyz"
    /\ sequenceNumber = 1 /\ sessionID = "abc" /\ Len(events) = 1
    /\ ReconnectCall \in DOMAIN calls

C6_Step ==
    (HandlesEvent /\ InSequence /\ demux.p.EventName \notin {evReady, evResume})
        => /\ sequenceNumber' = sequenceNumber + 1
           /\ IF demux.p.EventName \in TrackedSet
              THEN demux' = Demux("forward", demux.p, NoPacket, "")
              ELSE demux'.pc = "select" /\ events' = events

\* C6: an in-sequence DiscordEvent named other than READY and RESUMED is
\* forwarded on the event channel when its name is in tracked_events at the
\* moment it is handled, and is dropped, with sequence_number advanced, when
\* it is not, for every interleaving with RegisterEvent and RemoveEvent
C6_TrackedEventsAreForwarded == [][C6_Step /\ ForwardStep]_vars

\* one tracked event was forwarded, then one that is not tracked was dropped
C6_Witness ==
    /\ Len(events) = 1 /\ events[1].Name = "MESSAGE_CREATE"
    /\ demux.res = "dropped" /\ demux.p.EventName = "TYPING_START"
    /\ sequenceNumber = 2
    /\ trackedEvents # <<>> /\ "TYPING_START" \notin TrackedSet

C7_Step ==
    /\ (HandlesEvent /\ InSequence /\ demux.p.EventName = evResume)
          => demux' = Demux("forward", demux.p, NoPacket, "")
    /\ (HandlesEvent /\ InSequence /\ demux.p.EventName = evReady)
          => demux' = Demux("ready", demux.p, NoPacket, "")
    /\ (demux.pc = "ready" /\ demux' # demux)
          => demux' = Demux("forward", demux.p, NoPacket, "")

C8_Step ==
    /\ (HandlesEvent /\ InSequence /\ demux.p.EventName = evReady)
          => sequenceNumber' = sequenceNumber + 1 /\ demux'.pc = "ready"
    /\ (demux.pc = "ready" /\ demux' # demux)
          => /\ sessionID' = demux.p.Data.session_id
             /\ trace' = demux.p.Data.trace
             /\ sequenceNumber' = sequenceNumber
             /\ demux' = Demux("forward", demux.p, NoPacket, "")
    /\ (sessionID' # sessionID \/ trace' # trace)
          => /\ demux.pc = "ready" /\ demux.p.Op = opDiscordEvent
             /\ demux.p.EventName = evReady
             /\ demux.p.SequenceNumber = sequenceNumber

----------------------------------------------------------------------------
(* The handshake: a client fed with DiscordEvent and Hello packets; the      *)
(* demultiplexer's handshake command, the pulsators each Hello starts and    *)
(* their first beat (no time passes)                                         *)

NextHandshake ==
    \/ \E d, o \in BOOLEAN : UserConnect(d, o)
    \/ \E r \in DOMAIN receivers, p \in EventPackets \cup HelloPackets : receiver_Read(r, p)
    \/ \E r \in DOMAIN receivers : receiver_Poll(r)
    \/ \E r \in DOMAIN receivers : operationHandlers_Receive(r)
    \/ eventHandler
    \/ eventHandler_Ready
    \/ eventHandler_Dispatch
    \/ \E a \in BOOLEAN : operationHandlers_Hello(a)
    \/ \E e \in DOMAIN emitters : emitter_FromDemux(e)
    \/ \E e \in DOMAIN emitters, i \in 1..Len(pulsators) : emitter_FromPulsator(e, i)
    \/ \E e \in DOMAIN emitters : emitter_Write(e)
    \/ \E i \in 1..Len(pulsators), id \in 1..MaxServiceID : pulsate_Start(i, id)
    \/ \E i \in 1..Len(pulsators), a \in BOOLEAN : pulsate_Beat(i, a)

SpecHandshake == Init /\ [][NextHandshake]_vars

\* the pulsators that have passed AllowedToStartPulsating and not yet returned
ActivePulsators ==
    {i \in 1..Len(pulsators) : pulsators[i].pc \in {"ticker", "beat", "emit", "wait"}}

\* C2: in every reachable state at most one pulsator is inside its heartbeat
\* loop, and the pulsator token (Client.pulsating) is 0 exactly when no
\* pulsator is active, for every choice of the service ids
C2_SinglePulsator ==
    /\ Cardinality(ActivePulsators) <= 1
    /\ (pulsating = 0) <=> (ActivePulsators = {})

\* this step is the demultiplexer handling the Hello it has received
HandlesHello == demux.pc = "handle" /\ demux.p.Op = opHello /\ demux' # demux

\* the handshake command the claim expects for the session state of this step
C3_Expected ==
    IF sessionID = "" /\ sequenceNumber = 0
    THEN [Op |-> opIdentify, Data |-> IdentifyData(Token)]
    ELSE [Op |-> opResume,
          Data |-> ResumeData(Token, sessionID, sequenceNumber)]

C3_Step ==
    /\ HandlesHello
          => /\ heartbeatInterval' = demux.p.Data.heartbeat_interval
             /\ demux'.out = C3_Expected
             /\ demux'.pc = "emit" \/ (demux'.pc = "select" /\ demux'.res = "emit error")
             /\ written' = written /\ emitters' = emitters
             /\ sessionID' = sessionID /\ sequenceNumber' = sequenceNumber
    /\ (demux.pc = "emit" /\ demux.p.Op = opHello /\ demux' # demux)
          => /\ \E e \in DOMAIN emitters :
                   emitters' = BagAdd(BagDel(emitters, e), Emitter("got", demux.out))
             /\ demux'.pc = "select"

----------------------------------------------------------------------------
(* The heartbeat: a connected client whose first frame is a Hello, followed  *)
(* by HeartbeatAck and Reconnect packets; its pulsator, the watchdogs of the *)
(* beats and the reconnect() calls up to the post on the restart channel.    *)
(* The rate limiter admits every heartbeat.  A goroutine that can run does   *)
(* so before half a second has passed: time moves on only when none of the   *)
(* client's steps is possible.                                               *)

PulsePackets ==
    HelloPackets
    \cup { discordPacket(op, 0, "", NoData) : op \in {opHeartbeatAck, opReconnect} }

\* the server greets a new connection with Hello
receiver_ReadGreeted(r, p) ==
    /\ (p.Op = opHello) <=> (nread = 0)
    /\ receiver_Read(r, p)

StepsPulse ==
    \/ \E r \in DOMAIN receivers : receiver_Poll(r)
    \/ \E r \in DOMAIN receivers : operationHandlers_Receive(r)
    \/ \E a \in BOOLEAN : operationHandlers_Hello(a)
    \/ operationHandlers_HeartbeatAck
    \/ operationHandlers_Reconnect
    \/ \E e \in DOMAIN emitters : emitter_FromDemux(e)
    \/ \E e \in DOMAIN emitters, i \in 1..Len(pulsators) : emitter_FromPulsator(e, i)
    \/ \E e \in DOMAIN emitters : emitter_Write(e)
    \/ \E i \in 1..Len(pulsators) : pulsate_Start(i, 1)
    \/ \E i \in 1..Len(pulsators) : pulsate_Beat(i, TRUE)
    \/ \E i \in 1..Len(pulsators) : pulsate_Tick(i)
    \/ \E w \in DOMAIN watchdogs : watchdog_Cancel(w)
    \/ \E w \in DOMAIN watchdogs : watchdog_Deadline(w)
    \/ \E w \in DOMAIN watchdogs : watchdog_Latency(w)
    \/ \E c \in DOMAIN calls : reconnect_Lock(c)
    \/ \E c \in DOMAIN calls, i \in 1..Len(pulsators) : reconnect_Post(c, i)

TickPulse == (~ENABLED StepsPulse) /\ Tick

NextPulse ==
    \/ TickPulse
    \/ \E d, o \in BOOLEAN : UserConnect(d, o)
    \/ \E r \in DOMAIN receivers, p \in PulsePackets : receiver_ReadGreeted(r, p)
    \/ StepsPulse

SpecPulse == Init /\ [][NextPulse]_vars

----------------------------------------------------------------------------
(* Properties of the heartbeat watchdog *)

\* this step is the watchdog w leaving its select
Expires(w) ==
    /\ w.pc = "wait"
    /\ \/ watchdogs' = BagDel(watchdogs, w)
       \/ watchdogs' = BagAdd(BagDel(watchdogs, w), [w EXCEPT !.pc = "latency"])

\* ... and writing the latency
WritesLatency(w) == w.pc = "latency" /\ watchdogs' = BagDel(watchdogs, w)

InvokesReconnect == calls' = BagAdd(calls, ReconnectCall)

\* the claim as it stands: the watchdog of a beat ends in reconnect()
\* when no HeartbeatAck was handled after the beat, and in the latency when
\* one was
C4_AsClaimed ==
    \A w \in DOMAIN watchdogs :
        Expires(w)
            => IF w.acked
               THEN /\ calls' = calls
                    /\ watchdogs' = BagAdd(BagDel(watchdogs, w),
                                           [w EXCEPT !.pc = "latency"])
               ELSE /\ InvokesReconnect
                    /\ watchdogs' = BagDel(watchdogs, w)

\* C4 as claimed: for every beat, reconnect() at the deadline when no
\* HeartbeatAck was handled after the beat, else the latency and no reconnect()
C4_EveryBeatIsWatched == [][C4_AsClaimed]_vars

C4_Step ==
    \* the snapshot is taken before the beat and handed to the beat's watchdog
    /\ \A i \in 1..Len(pulsators) :
          /\ (pulsators[i].pc \in {"ticker", "beat"} /\ pulsators'[i].pc = "emit")
                => pulsators'[i].last = lastHeartbeatAck
          /\ (pulsators[i].pc = "emit" /\ pulsators'[i].pc = "wait")
                => LET w == Watchdog("wait", pulsators[i].last, Now, AckDeadline, i)
                   IN /\ w \in DOMAIN watchdogs'
                      /\ watchdogs'[w] = (IF w \in DOMAIN watchdogs
                                          THEN watchdogs[w] ELSE 0) + 1
    /\ \A w \in DOMAIN watchdogs :
          /\ Expires(w)
                => \/ /\ w.cancel = 0 - 1
                      /\ watchdogs' = BagDel(watchdogs, w)
                      /\ calls' = calls /\ heartbeatLatency' = heartbeatLatency
                   \/ /\ w.t = 0
                      /\ w.acked => lastHeartbeatAck > w.last
                      /\ IF lastHeartbeatAck <= w.last
                         THEN /\ InvokesReconnect
                              /\ watchdogs' = BagDel(watchdogs, w)
                         ELSE /\ calls' = calls
                              /\ watchdogs' = BagAdd(BagDel(watchdogs, w),
                                                     [w EXCEPT !.pc = "latency"])
                      /\ heartbeatLatency' = heartbeatLatency
          /\ WritesLatency(w)
                => /\ heartbeatLatency' = lastHeartbeatAck - w.sent
                   /\ calls' = calls

\* C4 (amended): the watchdog of a beat, unless its pulsator's exit cancels
\* it, acts once its 3 second deadline has passed: it invokes reconnect() when
\* last_heartbeat_ack is not later than the value snapshotted before the beat,
\* and otherwise invokes no reconnect() and sets heartbeat_latency to
\* last_heartbeat_ack minus the send time
C4_WatchdogDecidesOnTheSnapshot == [][C4_Step]_vars

\* after Hello and one HeartbeatAck and nothing else, a latency was measured
\* and a later beat's watchdog has called reconnect()
C4_Witness ==
    /\ nread = 2 /\ demux.p.Op = opHeartbeatAck /\ demux.pc = "select"
    /\ heartbeatLatency > 0
    /\ \E c \in DOMAIN calls : c.kind = "reconnect"

----------------------------------------------------------------------------
(* Properties of the restart debounce *)

\* this step is the reconnect() call c passing, or failing, lockRestart()
Accepted(c) ==
    /\ c.kind = "reconnect" /\ c.pc = "start"
    /\ calls' = BagAdd(BagDel(calls, c), [c EXCEPT !.pc = "post"])
Dropped(c) ==
    /\ c.kind = "reconnect" /\ c.pc = "start"
    /\ calls' = BagDel(calls, c)

C5_Step ==
    /\ \A c \in DOMAIN calls :
          /\ Accepted(c)
                => /\ ~((Now - lastRestart) < HalfSecond)
                   /\ lastRestart' = Now
          /\ Dropped(c)
                => /\ (Now - lastRestart) <= HalfSecond
                   /\ lastRestart' = lastRestart
                   /\ UNCHANGED <<link, mu, pulsating, pulsators, watchdogs,
                                  receivers, emitters, demux, written>>
    \* the window starts at the last accepted call and nowhere else
    /\ lastRestart' # lastRestart
          => \/ \E c \in DOMAIN calls : Accepted(c)
             \/ lastRestart' = lastRestart - 1

\* C5: of two reconnect() calls less than 500 ms apart at most one goes on to
\* the reconnection series; the other returns without posting on the restart
\* channel and without Disconnect or Connect; the window is measured from the
\* last accepted call, a dropped call does not extend it
C5_RestartsAreDebounced == [][C5_Step]_vars

\* a call was dropped in the instant in which another one was accepted
C5_Witness ==
    /\ locked = "no" /\ lastRestart = Now
    /\ \E c \in DOMAIN calls : c.kind = "reconnect" /\ c.pc \in {"post", "dc"}

----------------------------------------------------------------------------
(* The outbound path: an application that connects, disconnects and emits    *)
(* commands one after the other, over a transport that may drop; time moves  *)
(* on only when none of the client's steps is possible                       *)

StepsEmit ==
    \/ \E r \in DOMAIN receivers : receiver_ReadError(r)
    \/ \E c \in DOMAIN calls, a \in BOOLEAN : Disconnect(c, a)
    \/ \E c \in DOMAIN calls : Disconnect_Return(c)
    \/ \E e \in DOMAIN emitters, c \in DOMAIN calls : emitter_FromCall(e, c)
    \/ \E e \in DOMAIN emitters : emitter_Write(e)

TickEmit == (~ENABLED StepsEmit) /\ Tick

NextEmit ==
    \/ TickEmit
    \/ ConnDrop
    \/ \E d, o \in BOOLEAN : UserConnect(d, o)
    \/ UserDisconnect
    \/ \E cm \in UserCommands, a \in BOOLEAN : UserEmit(cm, a)
    \/ StepsEmit

SpecEmit == Init /\ [][NextEmit]_vars

IsUserPacket(msg) == msg.Data.kind = "user"

\* the application's packets among those handed to conn.WriteJSON, in order
UserWrites == SelectSeq(written, IsUserPacket)

\* C9: the commands of a single producer's successive Emit calls reach the
\* transport's write in the order of the calls, none twice
C9_WritesInCallOrder ==
    \A i, j \in 1..Len(UserWrites) :
        i < j => UserWrites[i].Data.n < UserWrites[j].Data.n

----------------------------------------------------------------------------
(* Shutdown: a connected client whose first frame is a Hello, followed by    *)
(* Reconnect and InvalidSession packets, and whose application calls         *)
(* Shutdown at any moment and does not connect afterwards; the rate limiter  *)
(* admits every command; time moves on only when none of the client's steps *)
(* is possible                                                               *)

ShutdownPackets ==
    { p \in HelloPackets : p.Data.heartbeat_interval > AckDeadline }
    \cup { discordPacket(op, 0, "", NoData) : op \in {opReconnect, opInvalidSession} }

StepsShutdown ==
    \/ \E r \in DOMAIN receivers : receiver_ReadError(r)
    \/ \E r \in DOMAIN receivers : receiver_Poll(r)
    \/ \E r \in DOMAIN receivers : operationHandlers_Receive(r)
    \/ operationHandlers_Shutdown
    \/ operationHandlers_Hello(TRUE)
    \/ operationHandlers_Reconnect
    \/ operationHandlers_InvalidSession(1)
    \/ \E c \in DOMAIN calls : invalidSession_Identify(c, TRUE)
    \/ \E e \in DOMAIN emitters : emitter_FromDemux(e)
    \/ \E e \in DOMAIN emitters, i \in 1..Len(pulsators) : emitter_FromPulsator(e, i)
    \/ \E e \in DOMAIN emitters, c \in DOMAIN calls : emitter_FromCall(e, c)
    \/ \E e \in DOMAIN emitters : emitter_Shutdown(e)
    \/ \E e \in DOMAIN emitters : emitter_Write(e)
    \/ \E i \in 1..Len(pulsators) : pulsate_Start(i, 1)
    \/ \E i \in 1..Len(pulsators) : pulsate_Beat(i, TRUE)
    \/ \E i \in 1..Len(pulsators) : pulsate_Tick(i)
    \/ \E i \in 1..Len(pulsators) : pulsate_Shutdown(i)
    \/ \E w \in DOMAIN watchdogs : watchdog_Cancel(w)
    \/ \E w \in DOMAIN watchdogs : watchdog_Deadline(w)
    \/ \E c \in DOMAIN calls : reconnect_Lock(c)
    \/ \E c \in DOMAIN calls, i \in 1..Len(pulsators) : reconnect_Post(c, i)
    \/ \E c \in DOMAIN calls : reconnect_Connect(c, TRUE, TRUE)
    \/ \E c \in DOMAIN calls : Disconnect(c, TRUE)
    \/ \E c \in DOMAIN calls : Disconnect_Return(c)
    \/ \E c \in DOMAIN calls : Shutdown_Close(c)

TickShutdown == (~ENABLED StepsShutdown) /\ Tick

NextShutdown ==
    \/ TickShutdown
    \/ ~ShutdownCalled /\ UserConnect(TRUE, TRUE)
    \/ UserShutdown
    \/ \E r \in DOMAIN receivers, p \in ShutdownPackets : receiver_ReadGreeted(r, p)
    \/ StepsShutdown

SpecShutdown == Init /\ [][NextShutdown]_vars

\* no goroutine of the session is left
Terminated ==
    /\ demux.pc = "done"
    /\ DOMAIN receivers = {} /\ DOMAIN emitters = {}
    /\ \A i \in 1..Len(pulsators) : pulsators[i].pc = "done"
    /\ DOMAIN watchdogs = {} /\ DOMAIN calls = {}

\* nothing can happen any more, now or later: no goroutine can take a step,
\* no timer is running and no goroutine waits for the transport
Settled ==
    /\ ~ENABLED StepsShutdown
    /\ \A w \in DOMAIN watchdogs : w.t = 0
    /\ \A c \in DOMAIN calls : c.t = 0
    /\ \A r \in DOMAIN receivers : r.pc # "read"

\* C10: after Shutdown every goroutine of the session terminates; none stays
\* blocked for ever: once the shutdown channel is closed and nothing can
\* happen any more, no goroutine is left
C10_ShutdownEndsEveryGoroutine == (shutdown /\ Settled) => Terminated

----------------------------------------------------------------------------
(* The reconnection series: a connected client whose first frame is a Hello, *)
(* followed by Reconnect packets; the reconnect() calls with their post on   *)
(* the restart channel, Disconnect and the Connect attempts, each of which   *)
(* may fail to open the transport; the application may call Shutdown at any  *)
(* moment and does not connect afterwards; the rate limiter admits every     *)
(* command; time moves on only when none of the client's steps is possible   *)

ReconnectPackets ==
    { p \in HelloPackets : p.Data.heartbeat_interval > AckDeadline }
    \cup { discordPacket(opReconnect, 0, "", NoData) }

StepsReconnect ==
    \/ \E r \in DOMAIN receivers : receiver_ReadError(r)
    \/ \E r \in DOMAIN receivers : receiver_Poll(r)
    \/ \E r \in DOMAIN receivers : operationHandlers_Receive(r)
    \/ operationHandlers_Shutdown
    \/ operationHandlers_Hello(TRUE)
    \/ operationHandlers_Reconnect
    \/ \E e \in DOMAIN emitters : emitter_FromDemux(e)
    \/ \E e \in DOMAIN emitters, i \in 1..Len(pulsators) : emitter_FromPulsator(e, i)
    \/ \E e \in DOMAIN emitters, c \in DOMAIN calls : emitter_FromCall(e, c)
    \/ \E e \in DOMAIN emitters : emitter_Shutdown(e)
    \/ \E e \in DOMAIN emitters : emitter_Write(e)
    \/ \E i \in 1..Len(pulsators) : pulsate_Start(i, 1)
    \/ \E i \in 1..Len(pulsators) : pulsate_Beat(i, TRUE)
    \/ \E i \in 1..Len(pulsators) : pulsate_Tick(i)
    \/ \E i \in 1..Len(pulsators) : pulsate_Shutdown(i)
    \/ \E w \in DOMAIN watchdogs : watchdog_Cancel(w)
    \/ \E w \in DOMAIN watchdogs : watchdog_Deadline(w)
    \/ \E c \in DOMAIN calls : reconnect_Lock(c)
    \/ \E c \in DOMAIN calls, i \in 1..Len(pulsators) : reconnect_Post(c, i)
    \/ \E c \in DOMAIN calls, o \in BOOLEAN : reconnect_Connect(c, TRUE, o)
    \/ \E c \in DOMAIN calls : reconnect_Retry(c)
    \/ \E c \in DOMAIN calls : reconnect_Shutdown(c)
    \/ \E c \in DOMAIN calls : Disconnect(c, TRUE)
    \/ \E c \in DOMAIN calls : Disconnect_Return(c)
    \/ \E c \in DOMAIN calls : Shutdown_Close(c)

TickReconnect == (~ENABLED StepsReconnect) /\ Tick

NextReconnect ==
    \/ TickReconnect
    \/ ~ShutdownCalled /\ UserConnect(TRUE, TRUE)
    \/ UserShutdown
    \/ \E r \in DOMAIN receivers, p \in ReconnectPackets : receiver_ReadGreeted(r, p)
    \/ StepsReconnect

SpecReconnect == Init /\ [][NextReconnect]_vars

----------------------------------------------------------------------------
(* Properties of the reconnection series *)

\* this step is the reconnect() call c calling Connect, for the (try+1)-th time
Failed(c) == [c EXCEPT !.pc = "backoff", !.t = (c.try + 3) * 2 * Second]
Attempts(c) ==
    /\ c.kind = "reconnect" /\ c.pc = "connect"
    /\ \/ calls' = BagDel(calls, c)
       \/ calls' = BagAdd(BagDel(calls, c), Failed(c))

\* ... and Connect succeeding: one more receiver on an open transport
Succeeds == conn' = "open" /\ ~disconnected' /\ receivers' # receivers

C11_Step ==
    \A c \in DOMAIN calls :
        /\ Attempts(c)
              => /\ c.try + 1 <= maxReconnectTries
                 /\ Succeeds => calls' = BagDel(calls, c)
                 /\ (~Succeeds /\ c.try + 1 = maxReconnectTries)
                       => calls' = BagDel(calls, c)
        \* a shutdown signal during the backoff wait: the call returns
        /\ (c.kind = "reconnect" /\ c.pc = "backoff" /\ c.t > 0
            /\ calls' = BagDel(calls, c))
              => shutdown /\ UNCHANGED <<link, receivers, emitters>>

\* C11: a reconnect() that has passed the debounce calls Connect at most
\* maxReconnectTries = 5 times; it returns at the first Connect that succeeds
\* and after the last one when all have failed; a shutdown signal during a
\* backoff wait ends the loop without another Connect
C11_AtMostMaxReconnectTriesConnects == [][C11_Step]_vars

----------------------------------------------------------------------------
(* The client on one connection, fed with DiscordEvent packets numbered *)
(* 1, 2, ... in the order the gateway sends them                         *)

\* conn.Read returns the next event of the stream
receiver_ReadNext(r, p) == p.SequenceNumber = nread + 1 /\ receiver_Read(r, p)

NextStream ==
    \/ \E d, o \in BOOLEAN : UserConnect(d, o)
    \/ \E ev \in Registrable : RegisterEvent(ev)
    \/ \E ev \in Registrable : RemoveEvent(ev)
    \/ \E r \in DOMAIN receivers, p \in EventPackets : receiver_ReadNext(r, p)
    \/ \E r \in DOMAIN receivers : receiver_Poll(r)
    \/ \E r \in DOMAIN receivers : operationHandlers_Receive(r)
    \/ eventHandler
    \/ eventHandler_Ready
    \/ eventHandler_Dispatch

SpecStream == Init /\ [][NextStream]_vars

\* the events read from the transport that eventHandler has not been given yet
Unhandled ==
    SumCopies({r \in DOMAIN receivers : r.pc = "send"}, receivers)
    + (IF demux.pc = "handle" THEN 1 ELSE 0)

----------------------------------------------------------------------------
(* The client told that its session is invalid: the delayed Identify and *)
(* the READY events around it                                            *)

InvalidPackets ==
    { p \in EventPackets : p.EventName = evReady }
    \cup { discordPacket(opInvalidSession, 0, "", NoData) }

StepsInvalid ==
    \/ \E r \in DOMAIN receivers : receiver_Poll(r)
    \/ \E r \in DOMAIN receivers : operationHandlers_Receive(r)
    \/ eventHandler
    \/ eventHandler_Ready
    \/ eventHandler_Dispatch
    \/ \E d \in 1..MaxDelay : operationHandlers_InvalidSession(d)
    \/ \E c \in DOMAIN calls, a \in BOOLEAN : invalidSession_Identify(c, a)
    \/ \E e \in DOMAIN emitters, c \in DOMAIN calls : emitter_FromCall(e, c)
    \/ \E e \in DOMAIN emitters : emitter_Write(e)
    \/ \E c \in DOMAIN calls : reconnect_Lock(c)

TickInvalid == (~ENABLED StepsInvalid) /\ Tick

NextInvalid ==
    \/ TickInvalid
    \/ \E d, o \in BOOLEAN : UserConnect(d, o)
    \/ \E r \in DOMAIN receivers, p \in InvalidPackets : receiver_Read(r, p)
    \/ StepsInvalid

SpecInvalid == Init /\ [][NextInvalid]_vars

----------------------------------------------------------------------------
(* Properties of the Invalid-Session handler *)

\* this step is the demultiplexer handling the InvalidSession it has received
HandlesInvalid ==
    demux.pc = "handle" /\ demux.p.Op = opInvalidSession /\ demux' # demux

\* the Invalid-Session goroutines still in their delay, and in Emit's send
Delayed(B) ==
    SumCopies({c \in DOMAIN B : c.kind = "invalid" /\ c.pc = "delay"}, B)
Identifying(B) ==
    SumCopies({c \in DOMAIN B : c.kind = "invalid" /\ c.pc = "emit"}, B)

IdentifyCall ==
    Call("invalid", "emit", 0, 0,
         [Op |-> opIdentify, Data |-> IdentifyData(Token)])

\* nothing of the session, the heartbeat or the tracked events changes
NoSideEffect ==
    UNCHANGED <<link, session, heart, trackedEvents, pulsating, restart,
                pulsators, watchdogs, written, events>>

\* the packet starts one goroutine that waits d seconds, d in 1..4, and the
\* demultiplexer is back in its select
C13_Receipt ==
    HandlesInvalid
        => /\ \E d \in 1..4 :
                /\ d * timeoutMultiplier * Second >= timeoutMultiplier * Second
                /\ calls' = BagAdd(calls, Call("invalid", "delay", 0,
                                               d * timeoutMultiplier * Second,
                                               NoPacket))
           /\ demux'.pc = "select"
           /\ NoSideEffect

\* a goroutine leaves its delay only when the delay has run out, and an
\* Identify is offered to the emitter only by a goroutine leaving its delay
C13_Expiry(outcomes(_)) ==
    /\ Delayed(calls') < Delayed(calls)
          => /\ \E c \in DOMAIN calls :
                    /\ c.kind = "invalid" /\ c.pc = "delay" /\ c.t = 0
                    /\ calls' \in outcomes(c)
             /\ NoSideEffect
    /\ Identifying(calls') > Identifying(calls)
          => Delayed(calls') < Delayed(calls)

Identified(c) == BagAdd(BagDel(calls, c), IdentifyCall)
OnlyIdentified(c) == {Identified(c)}
IdentifiedOrDenied(c) == {Identified(c), BagDel(calls, c)}

----------------------------------------------------------------------------
(* Properties of Connect and Emit as the application calls them *)

\* Connect has returned an error: nothing of the connection has changed
ConnectFailed ==
    /\ disconnected' = disconnected /\ haveConnectedOnce' = haveConnectedOnce
    /\ receivers' = receivers /\ emitters' = emitters

\* Connect has returned nil
ConnectSucceeded ==
    /\ ~disconnected' /\ haveConnectedOnce'
    /\ receivers' = BagAdd(receivers, Receiver("read", NoInbound))
    /\ emitters' = BagAdd(emitters, Emitter("select", NoPacket))

C14_Step ==
    \A discovered, opened \in BOOLEAN :
        UserConnect(discovered, opened)
            => IF \/ ~disconnected
                  \/ ~endpoint /\ ~discovered
                  \/ ~opened
               THEN ConnectFailed
               ELSE ConnectSucceeded

\* C14: Connect fails when the session is not disconnected, when the endpoint
\* discovery fails or when the transport open fails, and then leaves
\* disconnected and have_connected_once as they were and starts no goroutine;
\* when it succeeds disconnected is false, have_connected_once is true and
\* exactly one receiver and one emitter have been started
C14_ConnectFailsOrStartsOnePair == [][C14_Step]_vars

\* a Connect has succeeded, and the calls after it have been refused
C14_Witness ==
    /\ ncalls = MaxCalls /\ BagCardinality(calls) = 0
    /\ ~disconnected /\ haveConnectedOnce /\ conn = "open"
    /\ BagCardinality(receivers) = 1 /\ BagCardinality(emitters) = 1
    /\ written = <<>>

\* the command-to-opcode table
CommandTable ==
    (evShutdown :> 100) @@ (evClose :> 101) @@ (evHeartbeat :> 1)
    @@ (evIdentify :> 2) @@ (evResume :> 6) @@ (cmdRequestGuildMembers :> 8)
    @@ (cmdUpdateVoiceState :> 4) @@ (cmdUpdateStatus :> 3)

\* the Emit calls blocked in the send on the outbound channel
Enqueued(B) == SumCopies({c \in DOMAIN B : c.kind = "Emit"}, B)

C15_Step ==
    /\ \A command \in UserCommands, accepted \in BOOLEAN :
        UserEmit(command, accepted)
            => IF \/ ~haveConnectedOnce
                  \/ command \notin DOMAIN CommandTable
                  \/ ~accepted
               THEN calls' = calls
               ELSE calls' = BagAdd(calls,
                        Call("Emit", "emit", 0, 0,
                             [Op |-> CommandTable[command],
                              Data |-> UserData(nemit + 1)]))
    \* the packet leaves the channel when an emitter takes it
    /\ \A c \in DOMAIN calls :
        (c.kind = "Emit" /\ Enqueued(calls') < Enqueued(calls))
            => /\ calls' = BagDel(calls, c)
               /\ \E e \in DOMAIN emitters :
                     emitters' = BagAdd(BagDel(emitters, e), Emitter("got", c.out))

\* C15: Emit returns an error and enqueues nothing when no Connect has ever
\* succeeded, when the command is not in the command-to-opcode table or when
\* the rate limiter denies the command; in every other case the packet of the
\* command's opcode and the data is enqueued exactly once
C15_EmitEnqueuesOnceOrFails == [][C15_Step]_vars

\* after a refused Emit, a second one has been written to the transport
C15_Witness ==
    /\ nemit = MaxEmits /\ Len(written) = 1
    /\ written[1] = [Op |-> opStatusUpdate, Data |-> UserData(MaxEmits)]
    /\ Enqueued(calls) = 0

\* C16: in every reachable state the session has at most one emitter goroutine
\* and at most one receiver goroutine, whatever the sequence of Connect,
\* Disconnect, read failures and transport disconnects
C16_OneEmitterOneReceiver ==
    /\ BagCardinality(emitters) <= 1
    /\ BagCardinality(receivers) <= 1

----------------------------------------------------------------------------
(* Properties of the pulsator's exit *)

\* this step is the only pulsator there has been leaving its loop
PulsatorExitStep ==
    /\ Len(pulsators) = 1
    /\ pulsators[1].pc = "wait" /\ pulsators'[1].pc = "done"

\* the deadline of the watchdog w has not elapsed and nothing has cancelled it
Pending(w) == w.pc = "wait" /\ w.t > 0 /\ w.cancel # 0 - 1

\* C17: when the pulsator exits on shutdown or restart, every watchdog it has
\* started whose 3-second deadline has not elapsed is cancelled, so that none
\* calls reconnect() or writes heartbeat_latency afterwards, also when the
\* heartbeat interval is shorter than 3 seconds
C17_ExitCancelsEveryWatchdog ==
    [][PulsatorExitStep => \A w \in DOMAIN watchdogs' : ~Pending(w)]_vars

\* C19: at any moment at most one reconnect() call is between passing the
\* debounce and returning: the Disconnect/Connect series of two calls never
\* overlap, also when the calls are more than 500 ms apart
C19_OneReconnectAtATime ==
    SumCopies({c \in DOMAIN calls : c.kind = "reconnect" /\ c.pc # "start"},
              calls) <= 1

----------------------------------------------------------------------------
(* The reconnection series over a transport that may lose its connection *)

NextRestart ==
    \/ ConnDrop
    \/ NextReconnect

SpecRestart == Init /\ [][NextRestart]_vars

\* the client is at rest: no goroutine can take a step, no timer is running
\* and no receiver is left to read a frame that would start a pulsator
AtRest ==
    /\ ~ENABLED StepsReconnect
    /\ \A w \in DOMAIN watchdogs : w.t = 0
    /\ \A c \in DOMAIN calls : c.t = 0
    /\ \A r \in DOMAIN receivers : r.pc # "read"

\* C18: every reconnect() call that passes the debounce proceeds past the
\* post on the restart channel to Disconnect and to a Connect attempt,
\* whether or not a pulsator is active: while the client is not shut down
\* it never comes to rest with a call still at the post
C18_EveryCallPassesThePost ==
    (AtRest /\ ~shutdown)
        => \A c \in DOMAIN calls : ~(c.kind = "reconnect" /\ c.pc = "post")

----------------------------------------------------------------------------
(* A session that is invalidated and identified again: the gateway sends a *)
(* READY numbered 1, then InvalidSession, and, once the client's Identify  *)
(* has been written, the READY of the fresh session, numbered 1 again      *)

\* conn.Read returns the next frame of that exchange
receiver_ReadFresh(r, p) ==
    /\ CASE nread = 0 -> p.EventName = evReady /\ p.SequenceNumber = 1
         [] nread = 1 -> p.Op = opInvalidSession
         [] OTHER -> /\ p.EventName = evReady /\ p.SequenceNumber = 1
                     /\ Len(written) = 1 /\ written[1].Op = opIdentify
    /\ receiver_Read(r, p)

NextFresh ==
    \/ TickInvalid
    \/ \E d, o \in BOOLEAN : UserConnect(d, o)
    \/ \E r \in DOMAIN receivers, p \in InvalidPackets : receiver_ReadFresh(r, p)
    \/ StepsInvalid

SpecFresh == Init /\ [][NextFresh]_vars

\* the READY of the fresh session is the third frame read
FreshReady == nread = 3 /\ demux.p.EventName = evReady

C20_Step ==
    /\ (FreshReady /\ HandlesEvent)
          => /\ demux'.pc = "ready"
             /\ calls' = calls
    /\ (FreshReady /\ demux.pc = "ready" /\ demux' # demux)
          => /\ sessionID' = demux.p.Data.session_id
             /\ demux'.pc = "forward"
    /\ (FreshReady /\ demux.pc = "forward" /\ demux' # demux)
          => events' = Append(events, [Name |-> evReady, Data |-> demux.p.Data])

\* C20: after an InvalidSession on a session whose sequence_number is above 0
\* and after the delayed Identify has been sent, the READY that follows with
\* sequence 1 is accepted: session_id is set from it and the READY Event is
\* forwarded; it is not treated as a sequence mismatch that forces a reconnect
C20_FreshReadyIsAccepted == [][C20_Step]_vars

----------------------------------------------------------------------------
(* Properties of Disconnect *)

ClosePacket == [Op |-> opClose, Data |-> Nil]

\* this step is the call c of Disconnect leaving its first statement
Disconnects(c) ==
    /\ c.kind = "Disconnect" /\ c.pc = "dc"
    /\ CopiesIn(c, calls') < CopiesIn(c, calls)

C21_Step ==
    /\ \A c \in DOMAIN calls :
          Disconnects(c)
             => IF conn = "closed" \/ ~haveConnectedOnce
                THEN /\ disconnected'
                     /\ calls' = BagDel(calls, c)
                     /\ emitters' = emitters
                ELSE calls' = BagAdd(BagDel(calls, c),
                                     Call("Disconnect", "dc_emit", 0, 0, ClosePacket))
    \* the emitter that has received the Close packet
    /\ \A e \in DOMAIN emitters :
          (e.pc = "got" /\ e.msg = ClosePacket
           /\ CopiesIn(e, emitters') < CopiesIn(e, emitters))
             => /\ conn' = "closed"
                /\ emitters' = BagDel(emitters, e)
                /\ written' = written
    \* Disconnect returns
    /\ \A c \in DOMAIN calls :
          (c.kind = "Disconnect" /\ c.pc = "dc_wait" /\ calls' = BagDel(calls, c))
             => disconnected'

\* C21: Disconnect on a connected session passes a Close packet with nil
\* data through the outbound channel; the emitter that receives it closes the
\* transport and exits without writing it; disconnected is true when
\* Disconnect returns. When no Connect has succeeded or the transport reports
\* disconnected, Disconnect sets disconnected and enqueues nothing
C21_DisconnectClosesThroughTheEmitter == [][C21_Step]_vars

----------------------------------------------------------------------------
(* The event stream: the gateway sends a READY with session "abc", then a  *)
(* READY with session "xyz", each with any sequence, then a HeartbeatAck;  *)
(* the transport may lose its connection and the application may call     *)
(* Disconnect and Connect again                                            *)

\* conn.Read returns the next frame of that stream
receiver_ReadOrdered(r, p) ==
    /\ CASE nread = 0 -> p.EventName = evReady /\ p.Data.session_id = "abc"
         [] nread = 1 -> p.EventName = evReady /\ p.Data.session_id = "xyz"
         [] OTHER -> p.Op = opHeartbeatAck
    /\ receiver_Read(r, p)

OrderedPackets ==
    { p \in EventPackets : p.EventName = evReady }
    \cup { discordPacket(opHeartbeatAck, 0, "", NoData) }

StepsOrder ==
    \/ \E r \in DOMAIN receivers : receiver_ReadError(r)
    \/ \E r \in DOMAIN receivers : receiver_Poll(r)
    \/ \E r \in DOMAIN receivers : operationHandlers_Receive(r)
    \/ eventHandler
    \/ eventHandler_Ready
    \/ operationHandlers_HeartbeatAck
    \/ \E c \in DOMAIN calls : reconnect_Lock(c)
    \/ \E c \in DOMAIN calls, a \in BOOLEAN : Disconnect(c, a)
    \/ \E c \in DOMAIN calls : Disconnect_Return(c)
    \/ \E e \in DOMAIN emitters, c \in DOMAIN calls : emitter_FromCall(e, c)
    \/ \E e \in DOMAIN emitters : emitter_Write(e)

TickOrder == (~ENABLED StepsOrder) /\ Tick

NextOrder ==
    \/ TickOrder
    \/ ConnDrop
    \/ UserConnect(TRUE, TRUE)
    \/ UserDisconnect
    \/ \E r \in DOMAIN receivers, p \in OrderedPackets : receiver_ReadOrdered(r, p)
    \/ eventHandler_Dispatch
    \/ StepsOrder

SpecOrder == Init /\ [][NextOrder]_vars

\* the place in the stream of the packet an Event was made from
ReadAs(e) == IF e.Data.session_id = "abc" THEN 1 ELSE 2

\* the Events are in the order their packets were read, none twice
InReadOrder ==
    \A i, j \in 1..Len(events) : i < j => ReadAs(events[i]) < ReadAs(events[j])

\* while the consumer has not received the Event the demultiplexer does
\* nothing else; the receive puts that Event, once, at the end
BlocksOnForward ==
    (demux.pc = "forward" /\ demux' # demux)
        => /\ events' = Append(events, [Name |-> demux.p.EventName,
                                        Data |-> demux.p.Data])
           /\ demux'.pc = "select"

\* C22: Events appear on the event channel in the order in which their
\* DiscordEvent packets were read from the transport, each forwarded event
\* exactly once; when the consumer is not receiving, the demultiplexer blocks
\* on the forward and handles no later packet, neither dropping nor
\* reordering events
C22_EventsInReadOrder == []InReadOrder /\ [][BlocksOnForward]_vars

====
